---------------------------- MODULE Spec2Model ----------------------------
(***************************************************************************)
(* State-machine model of the Trimkart task-tracking backend               *)
(* (src/main.py, src/schemas.py).                                          *)
(*                                                                         *)
(* The document store holds the collections `user` and `task`.  Every      *)
(* store call of a handler (find_one, insert_one, find, update_one,        *)
(* count_documents) is one atomic step; a handler that makes several store *)
(* calls (register, analytics_overview) is a sequence of steps that other  *)
(* requests may interleave with.  Each client runs one request at a time   *)
(* and keeps the response of its last request.  AuthSpec, TaskSpec and     *)
(* AnalyticsSpec are the behaviours in which the clients send the requests *)
(* of one group of endpoints; Spec lets them send all of them.             *)
(***************************************************************************)
EXTENDS Naturals, Integers, Sequences, FiniteSets, TLC

(***************************************************************************)
(* Bounds of the model.                                                    *)
(***************************************************************************)
\* Requests started in one behaviour.
MaxRequests == 3
\* Last instant of the UTC clock (datetime.now reads an instant 0..MaxClock).
MaxClock == 1

\* The concurrent clients (request workers).
Clients == {"c1", "c2"}

(***************************************************************************)
(* Values.                                                                 *)
(***************************************************************************)
\* Python's None.
None == "None"
\* A request field the client left out (pydantic applies the default).
Omitted == "<omitted>"

RoleType == {"MD", "CEO", "COO", "MANAGER", "EMPLOYEE"}
TaskStatus == {"PENDING", "IN_PROGRESS", "COMPLETED"}

\* Inputs the clients draw from.
EmailInputs == {"a@x.io", "b@x.io", "not-an-email"}
PasswordInputs == {"pw1", "pw2"}
\* The (role, department_id) pairs of the registration bodies.
ProfileInputs == {<<Omitted, None>>, <<"MANAGER", "d1">>, <<"INTERN", None>>}
\* The role and department_id filters of GET /users.
RoleFilters == {None, "MANAGER"}
DeptFilters == {None, "d1"}
\* bcrypt draws a fresh random salt for every hash.
Salts == {"s1", "s2"}

\* EmailStr: the string has the shape local@domain.
IsEmail(s) == s \in {"a@x.io", "b@x.io"}

\* pwd_context.hash: a salted one-way digest of the password.
Hash(pw, salt) == [scheme |-> "bcrypt", salt |-> salt, digest |-> <<salt, pw>>]

\* pwd_context.verify: re-hash the password with the stored salt and compare.
Verify(pw, h) == Hash(pw, h.salt) = h

\* str(ObjectId): the canonical string form of a store identifier.
Str(id) == <<"oid", id>>

\* A path parameter that is no well-formed identifier string.
Malformed == <<"zz", 0>>

\* ObjectId(id_str) accepts the string.
IsObjectIdStr(id_str) == id_str[1] = "oid"

\* ObjectId(id_str): the identifier the string denotes.
ObjectId(id_str) == id_str[2]

\* dict.pop(key, None): the document without the key.
Pop(doc, key) == [k \in DOMAIN doc \ {key} |-> doc[k]]

\* dict[key] = value: the key is added, or its value replaced.
Put(doc, key, value) == (key :> value) @@ doc

\* d["id"] = str(d.pop("_id")).
RenameId(doc) == Put(Pop(doc, "_id"), "id", Str(doc["_id"]))

\* The subsequence of the documents that satisfy Test, in stored order.
RECURSIVE SelectDocs(_, _)
SelectDocs(docs, query) ==
    IF docs = <<>> THEN <<>>
    ELSE LET rest == SelectDocs(Tail(docs), query)
             d == Head(docs)
         IN IF \A k \in DOMAIN query : d[k] = query[k]
            THEN <<d>> \o rest ELSE rest

\* collection.find(query): the matching documents in natural (insertion) order.
Find(docs, query) == SelectDocs(docs, query)

\* collection.find_one(query): the first matching document, or None.  The
\* Optional result is a sequence: <<>> is None, <<d>> is the document d.
FindOne(docs, query) ==
    LET found == Find(docs, query)
    IN IF found = <<>> THEN <<>> ELSE <<Head(found)>>

\* collection.count_documents(query).
CountDocuments(docs, query) == Len(Find(docs, query))

\* insert_one: the store generates an identifier no stored document has.
NewId(docs) == Len(docs) + 1

\* insert_one(doc): the document is stored under a fresh _id.
InsertOne(docs, doc) == Append(docs, Put(doc, "_id", NewId(docs)))

VARIABLES
    users,      \* the `user` collection, in insertion order
    tasks,      \* the `task` collection, in insertion order
    now,        \* the UTC clock
    pc,         \* per client: where its running handler stands ("idle": none)
    loc,        \* per client: the locals of its running handler
    resp,       \* per client: the response to its last finished request
    nreq,       \* requests started so far
    overlapped  \* per client (history): a Create Task or Set Task Status took
                \* effect between the task counts of its last overview

vars == <<users, tasks, now, pc, loc, resp, nreq, overlapped>>

NoResp == [op |-> "none", code |-> 0, body |-> None]
NoLoc == [op |-> "none"]

\* raise HTTPException(status_code, detail).
HTTPException(op, code, detail) ==
    [op |-> op, code |-> code, body |-> [detail |-> detail]]

\* A request body pydantic rejects: FastAPI answers 422.
Unprocessable(op) == HTTPException(op, 422, "validation error")

Ok(op, body) == [op |-> op, code |-> 200, body |-> body]

Init ==
    /\ users = <<>>
    /\ tasks = <<>>
    /\ now = 0
    /\ pc = [c \in Clients |-> "idle"]
    /\ loc = [c \in Clients |-> NoLoc]
    /\ resp = [c \in Clients |-> NoResp]
    /\ nreq = 0
    /\ overlapped = [c \in Clients |-> FALSE]

\* A client starts a request: it is idle and the request budget is not spent.
CanStart(c) == pc[c] = "idle" /\ nreq < MaxRequests

\* The handler of client c ends with response r.
Finish(c, r) ==
    /\ pc' = [pc EXCEPT ![c] = "idle"]
    /\ loc' = [loc EXCEPT ![c] = NoLoc]
    /\ resp' = [resp EXCEPT ![c] = r]

\* Time passes.
Tick ==
    /\ now < MaxClock
    /\ now' = now + 1
    /\ UNCHANGED <<users, tasks, pc, loc, resp, nreq, overlapped>>

(***************************************************************************)
(* Auth: POST /auth/register, POST /auth/login, GET /users.                *)
(***************************************************************************)
\* UserRegister: whether pydantic accepts the body.
UserRegisterValid(email, role) ==
    IsEmail(email) /\ role \in RoleType \cup {Omitted}

\* UserRegister: the validated payload, defaults applied.
UserRegister(name, email, password, role, department_id) ==
    [name |-> name, email |-> email, password |-> password,
     role |-> IF role = Omitted THEN "EMPLOYEE" ELSE role,
     department_id |-> department_id]

\* get_user_by_email.
get_user_by_email(email) == FindOne(users, [email |-> email])

\* Mutant of EmailTaken: the lookup matches the email against the name field.
EmailTakenByName(email) == FindOne(users, [name |-> email]) # <<>>

\* register: `if get_user_by_email(payload.email): raise 400`.
EmailTaken(email) == get_user_by_email(email) # <<>>

\* register, up to the lookup: validation, then the duplicate-email check.
RegisterLookup(c, email, password, role, department_id) ==
    /\ CanStart(c)
    /\ nreq' = nreq + 1
    /\ LET payload == UserRegister("n", email, password, role, department_id)
       IN IF ~UserRegisterValid(email, role)
          THEN Finish(c, Unprocessable("register"))
          ELSE IF EmailTaken(payload.email)
          THEN Finish(c, HTTPException("register", 400, "Email already registered"))
          ELSE /\ pc' = [pc EXCEPT ![c] = "register_insert"]
               /\ loc' = [loc EXCEPT ![c] = [op |-> "register", payload |-> payload]]
               /\ resp' = [resp EXCEPT ![c] = NoResp]
    /\ UNCHANGED <<users, tasks, now, overlapped>>

\* register: the document built from the payload.
UserDoc(payload, salt) ==
    [name |-> payload.name,
     email |-> payload.email,
     password_hash |-> Hash(payload.password, salt),
     role |-> payload.role,
     department_id |-> payload.department_id,
     created_at |-> now,
     updated_at |-> now]

\* register, from the hash to the response: insert_one and the new id.
RegisterInsert(c, salt) ==
    /\ pc[c] = "register_insert"
    /\ users' = InsertOne(users, UserDoc(loc[c].payload, salt))
    /\ Finish(c, Ok("register", [id |-> Str(NewId(users)),
                                 message |-> "Registered successfully"]))
    /\ UNCHANGED <<tasks, now, nreq, overlapped>>

\* UserLogin: whether pydantic accepts the body.
UserLoginValid(email) == IsEmail(email)

\* UserLogin: the validated payload.
UserLogin(email, password) == [email |-> email, password |-> password]

\* login: `not user or not pwd_context.verify(payload.password, hash)`.
BadCredentials(user, password) ==
    user = <<>> \/ ~Verify(password, user[1].password_hash)

\* login: the record returned on success.
LoginUser(user) == Pop(RenameId(user), "password_hash")

\* login.
Login(c, email, password) ==
    /\ CanStart(c)
    /\ nreq' = nreq + 1
    /\ LET payload == UserLogin(email, password)
       IN IF ~UserLoginValid(email)
          THEN Finish(c, Unprocessable("login"))
          ELSE LET user == get_user_by_email(payload.email)
               IN IF BadCredentials(user, payload.password)
                  THEN Finish(c, HTTPException("login", 401, "Invalid credentials"))
                  ELSE Finish(c, Ok("login", [message |-> "Login successful",
                                              user |-> LoginUser(user[1])]))
    /\ UNCHANGED <<users, tasks, now, overlapped>>

\* list_users: the query built from the optional filters (`if role:`).
UsersQuery(role, department_id) ==
    IF role # None /\ department_id # None
    THEN [role |-> role, department_id |-> department_id]
    ELSE IF role # None THEN [role |-> role]
    ELSE IF department_id # None THEN [department_id |-> department_id]
    ELSE <<>>

\* Mutant of ListedUser: the password hash is not popped.
ListedUserWithHash(u) == RenameId(u)

\* list_users: one returned record.
ListedUser(u) == Pop(RenameId(u), "password_hash")

\* list_users.
ListUsers(c, role, department_id) ==
    /\ CanStart(c)
    /\ nreq' = nreq + 1
    /\ LET found == Find(users, UsersQuery(role, department_id))
       IN Finish(c, Ok("list_users", [i \in 1..Len(found) |-> ListedUser(found[i])]))
    /\ UNCHANGED <<users, tasks, now, overlapped>>

AuthNext ==
    \/ \E c \in Clients, e \in EmailInputs, p \in PasswordInputs,
          f \in ProfileInputs : RegisterLookup(c, e, p, f[1], f[2])
    \/ \E c \in Clients, s \in Salts : RegisterInsert(c, s)
    \/ \E c \in Clients, e \in EmailInputs, p \in PasswordInputs : Login(c, e, p)
    \/ \E c \in Clients, r \in RoleFilters, d \in DeptFilters : ListUsers(c, r, d)

\* The clients use the auth and user endpoints.
AuthSpec == Init /\ [][AuthNext]_vars

(***************************************************************************)
(* Tasks: POST /tasks, POST /tasks/{id}/update, POST /tasks/{id}/status.   *)
(* An Optional[int] or Optional[datetime] is a sequence: <<>> is None (or  *)
(* a field left out), <<v>> is the value v.                                *)
(***************************************************************************)
\* Inputs the clients draw from.
StatusInputs == {Omitted, "IN_PROGRESS", "COMPLETED", "DONE"}
ProgressInputs == {<<>>, <<-1>>, <<0>>, <<100>>, <<101>>}
TaskIdInputs == {Str(1), Str(2), Malformed}
StatusParams == {"PENDING", "IN_PROGRESS", "COMPLETED", "DONE"}

\* Mutant of ProgressInRange: the lower limit is left out.
ProgressAtMost100(n) == n <= 100

\* Field(ge=0, le=100).
ProgressInRange(n) == 0 <= n /\ n <= 100

\* TaskUpdateEntry: whether pydantic accepts the body.
TaskUpdateEntryValid(upd) ==
    upd.progress = <<>> \/ ProgressInRange(upd.progress[1])

\* TaskUpdateEntry.model_dump().
TaskUpdateEntry(user_id, progress, created_at) ==
    [user_id |-> user_id, note |-> None, progress |-> progress,
     created_at |-> created_at]

\* The bodies of the Add Task Update requests: every progress without a
\* created_at, and one body that brings its created_at.
UpdateInputs ==
    {TaskUpdateEntry("u1", p, <<>>) : p \in ProgressInputs}
        \cup {TaskUpdateEntry("u2", <<>>, <<0>>)}

\* The `updates` lists of the Create Task bodies.
UpdatesInputs == {<<>>, <<TaskUpdateEntry("u1", <<101>>, <<0>>)>>}

\* The (status, progress, updates) of the Create Task bodies: the accepted
\* ones, and the ones with one field out of its range.
CreateInputs ==
    {<<s, p, <<>>>> : s \in {Omitted, "COMPLETED"}, p \in {<<0>>, <<100>>}}
        \cup {<<"DONE", <<0>>, <<>>>>}
        \cup {<<Omitted, p, <<>>>> : p \in {<<-1>>, <<101>>}}
        \cup {<<Omitted, <<0>>, u>> : u \in UpdatesInputs}

\* Task: whether pydantic accepts the body.
TaskValid(status, progress, updates) ==
    /\ status \in TaskStatus \cup {Omitted}
    /\ progress = <<>> \/ ProgressInRange(progress[1])
    /\ \A i \in 1..Len(updates) : TaskUpdateEntryValid(updates[i])

\* Task.model_dump(): the validated body, defaults applied.
Task(status, progress, updates) ==
    [title |-> "t", description |-> None,
     assigned_to |-> "u1", assigned_by |-> "u2", department_id |-> None,
     status |-> IF status = Omitted THEN "PENDING" ELSE status,
     due_date |-> None,
     progress |-> IF progress = <<>> THEN 0 ELSE progress[1],
     updates |-> updates]

\* A task write took effect: every overview between its first and its last
\* task count has overlapped it.
Overlap ==
    [c \in Clients |->
        overlapped[c] \/ pc[c] \in {"overview_completed", "overview_in_progress",
                                    "overview_pending"}]

\* create_task.
CreateTask(c, status, progress, updates) ==
    /\ CanStart(c)
    /\ nreq' = nreq + 1
    /\ IF ~TaskValid(status, progress, updates)
       THEN /\ Finish(c, Unprocessable("create_task"))
            /\ UNCHANGED <<tasks, overlapped>>
       ELSE LET data == Put(Put(Task(status, progress, updates),
                                "created_at", now), "updated_at", now)
            IN /\ tasks' = InsertOne(tasks, data)
               /\ Finish(c, Ok("create_task", [id |-> Str(NewId(tasks))]))
               /\ overlapped' = Overlap
    /\ UNCHANGED <<users, now>>

\* update_one({"_id": id}, ...): the positions of the matching documents.
Matching(docs, id) == {i \in 1..Len(docs) : docs[i]["_id"] = id}

\* update_one(...).matched_count: update_one changes the first match only.
MatchedCount(docs, id) == IF Matching(docs, id) = {} THEN 0 ELSE 1

\* update_one: the position of the document it changes.
Matched(docs, id) ==
    CHOOSE i \in Matching(docs, id) : \A j \in Matching(docs, id) : i <= j

\* add_task_update: the entry pushed (created_at defaults to the current time).
PushedEntry(upd) ==
    IF upd.created_at = <<>> THEN [upd EXCEPT !.created_at = <<now>>] ELSE upd

\* Mutant of PushUpdate: the entry is put first ($position 0).
PushUpdateFirst(doc, upd) ==
    [doc EXCEPT !.updates = <<upd>> \o @, !.updated_at = now]

\* Mutant of PushUpdate: updated_at is not refreshed.
PushUpdateOnly(doc, upd) == [doc EXCEPT !.updates = Append(@, upd)]

\* {"$push": {"updates": upd}, "$set": {"updated_at": now}} on one document.
PushUpdate(doc, upd) ==
    [doc EXCEPT !.updates = Append(@, upd), !.updated_at = now]

\* Mutant of SetStatus: a completed task gets progress 100.
SetStatusAndProgress(doc, status) ==
    [doc EXCEPT !.status = status, !.updated_at = now,
                !.progress = IF status = "COMPLETED" THEN 100 ELSE @]

\* {"$set": {"status": status, "updated_at": now}} on one document.
SetStatus(doc, status) == [doc EXCEPT !.status = status, !.updated_at = now]

\* add_task_update.
AddTaskUpdate(c, task_id, update) ==
    /\ CanStart(c)
    /\ nreq' = nreq + 1
    /\ IF ~TaskUpdateEntryValid(update)
       THEN /\ Finish(c, Unprocessable("add_task_update"))
            /\ tasks' = tasks
       ELSE IF ~IsObjectIdStr(task_id)
       THEN /\ Finish(c, HTTPException("add_task_update", 400, "Invalid id format"))
            /\ tasks' = tasks
       ELSE IF MatchedCount(tasks, ObjectId(task_id)) = 0
       THEN /\ Finish(c, HTTPException("add_task_update", 404, "Task not found"))
            /\ tasks' = tasks
       ELSE /\ Finish(c, Ok("add_task_update", [message |-> "Update added"]))
            /\ LET i == Matched(tasks, ObjectId(task_id))
               IN tasks' = [tasks EXCEPT
                               ![i] = PushUpdate(@, PushedEntry(update))]
    /\ UNCHANGED <<users, now, overlapped>>

\* set_task_status.
SetTaskStatus(c, task_id, status) ==
    /\ CanStart(c)
    /\ nreq' = nreq + 1
    /\ IF status \notin {"PENDING", "IN_PROGRESS", "COMPLETED"}
       THEN /\ Finish(c, HTTPException("set_task_status", 400, "Invalid status"))
            /\ UNCHANGED <<tasks, overlapped>>
       ELSE IF ~IsObjectIdStr(task_id)
       THEN /\ Finish(c, HTTPException("set_task_status", 400, "Invalid id format"))
            /\ UNCHANGED <<tasks, overlapped>>
       ELSE IF MatchedCount(tasks, ObjectId(task_id)) = 0
       THEN /\ Finish(c, HTTPException("set_task_status", 404, "Task not found"))
            /\ UNCHANGED <<tasks, overlapped>>
       ELSE /\ Finish(c, Ok("set_task_status", [message |-> "Status updated"]))
            /\ LET i == Matched(tasks, ObjectId(task_id))
               IN tasks' = [tasks EXCEPT ![i] = SetStatus(@, status)]
            /\ overlapped' = Overlap
    /\ UNCHANGED <<users, now>>

(***************************************************************************)
(* Analytics: GET /analytics/overview, five count queries in a row.        *)
(***************************************************************************)
RECURSIVE Gcd(_, _)
Gcd(a, b) == IF b = 0 THEN a ELSE Gcd(b, a % b)

\* A quotient of naturals in lowest terms (the value of a float expression,
\* rounding left out).
Fraction(n, d) == [num |-> n \div Gcd(n, d), den |-> d \div Gcd(n, d)]

\* Mutant of CompletionRate: floor division before the multiplication.
CompletionRateFloor(completed, total_tasks) ==
    IF total_tasks # 0
    THEN Fraction((completed \div total_tasks) * 100, 1)
    ELSE Fraction(0, 1)

\* (completed / total_tasks * 100) if total_tasks else 0.0
CompletionRate(completed, total_tasks) ==
    IF total_tasks # 0
    THEN Fraction(completed * 100, total_tasks)
    ELSE Fraction(0, 1)

\* Mutant of PendingQuery: the in-progress filter is used twice.
PendingQueryInProgress == [status |-> "IN_PROGRESS"]

\* The filters of the three status counts.
CompletedQuery == [status |-> "COMPLETED"]
InProgressQuery == [status |-> "IN_PROGRESS"]
PendingQuery == [status |-> "PENDING"]

\* The handler of client c goes on to `next` with its locals set to l.
Continue(c, next, l) ==
    /\ pc' = [pc EXCEPT ![c] = next]
    /\ loc' = [loc EXCEPT ![c] = l]
    /\ resp' = resp

\* total_users = db["user"].count_documents({})
OverviewUsers(c) ==
    /\ CanStart(c)
    /\ nreq' = nreq + 1
    /\ pc' = [pc EXCEPT ![c] = "overview_tasks"]
    /\ loc' = [loc EXCEPT ![c] = [op |-> "overview",
                                  total_users |-> CountDocuments(users, <<>>)]]
    /\ resp' = [resp EXCEPT ![c] = NoResp]
    /\ UNCHANGED <<users, tasks, now, overlapped>>

\* total_tasks = db["task"].count_documents({})
OverviewTasks(c) ==
    /\ pc[c] = "overview_tasks"
    /\ Continue(c, "overview_completed",
                Put(loc[c], "total_tasks", CountDocuments(tasks, <<>>)))
    /\ overlapped' = [overlapped EXCEPT ![c] = FALSE]
    /\ UNCHANGED <<users, tasks, now, nreq>>

\* completed = db["task"].count_documents({"status": "COMPLETED"})
OverviewCompleted(c) ==
    /\ pc[c] = "overview_completed"
    /\ Continue(c, "overview_in_progress",
                Put(loc[c], "completed", CountDocuments(tasks, CompletedQuery)))
    /\ UNCHANGED <<users, tasks, now, nreq, overlapped>>

\* in_progress = db["task"].count_documents({"status": "IN_PROGRESS"})
OverviewInProgress(c) ==
    /\ pc[c] = "overview_in_progress"
    /\ Continue(c, "overview_pending",
                Put(loc[c], "in_progress", CountDocuments(tasks, InProgressQuery)))
    /\ UNCHANGED <<users, tasks, now, nreq, overlapped>>

\* pending = db["task"].count_documents({"status": "PENDING"}), and the return.
OverviewPending(c) ==
    /\ pc[c] = "overview_pending"
    /\ LET pending == CountDocuments(tasks, PendingQuery)
       IN Finish(c, Ok("overview",
              [users |-> loc[c].total_users,
               tasks |-> loc[c].total_tasks,
               completed |-> loc[c].completed,
               in_progress |-> loc[c].in_progress,
               pending |-> pending,
               completion_rate |->
                   CompletionRate(loc[c].completed, loc[c].total_tasks)]))
    /\ UNCHANGED <<users, tasks, now, nreq, overlapped>>

TaskNext ==
    \/ Tick
    \/ \E c \in Clients, b \in CreateInputs : CreateTask(c, b[1], b[2], b[3])
    \/ \E c \in Clients, t \in TaskIdInputs, u \in UpdateInputs :
          AddTaskUpdate(c, t, u)
    \/ \E c \in Clients, t \in TaskIdInputs, s \in StatusParams :
          SetTaskStatus(c, t, s)

\* The clients use the task endpoints.
TaskSpec == Init /\ [][TaskNext]_vars

AnalyticsNext ==
    \/ \E c \in Clients, s \in StatusInputs : CreateTask(c, s, <<>>, <<>>)
    \/ \E c \in Clients, t \in TaskIdInputs, s \in StatusParams :
          SetTaskStatus(c, t, s)
    \/ \E c \in Clients : OverviewUsers(c)
    \/ \E c \in Clients : OverviewTasks(c)
    \/ \E c \in Clients : OverviewCompleted(c)
    \/ \E c \in Clients : OverviewInProgress(c)
    \/ \E c \in Clients : OverviewPending(c)

\* The clients create tasks, set their status and read the overview.
AnalyticsSpec == Init /\ [][AnalyticsNext]_vars

\* The clients use every endpoint.
Next == AuthNext \/ TaskNext \/ AnalyticsNext

Spec == Init /\ [][Next]_vars

(***************************************************************************)
(* Claims about registration, login and the user listing (AuthSpec).       *)
(***************************************************************************)
ValidEmails == {e \in EmailInputs : IsEmail(e)}
ValidProfiles == {f \in ProfileInputs : f[1] \in RoleType \cup {Omitted}}

\* Some stored user has this email.
Stored(email) == \E i \in 1..Len(users) : users[i].email = email

DuplicateEmail(r) ==
    r = HTTPException("register", 400, "Email already registered")

\* C1: no two stored users share an email, in every reachable state, for
\* any interleaving of Register requests (lookup, then a separate insert).
C1_UniqueEmails ==
    \A i, j \in 1..Len(users) : i # j => users[i].email # users[j].email

\* C2: a Register (of a well-formed body) whose email is stored fails with
\* the duplicate-email error 400 and leaves the user collection unchanged,
\* whatever the password, role and department are; a Register whose email is
\* not stored goes on to its insert, which stores exactly one new user, keeps
\* the stored ones and returns that user's id, an id no other user has; the
\* ids returned to different clients are distinct.
C2_Register ==
    /\ [][\A c \in Clients :
            /\ \A e \in ValidEmails, p \in PasswordInputs, f \in ValidProfiles :
                   RegisterLookup(c, e, p, f[1], f[2]) =>
                       IF Stored(e)
                       THEN /\ DuplicateEmail(resp'[c])
                            /\ pc'[c] = "idle"
                            /\ users' = users
                       ELSE /\ pc'[c] = "register_insert"
                            /\ loc'[c].payload.email = e
                            /\ users' = users
            /\ \A s \in Salts :
                   RegisterInsert(c, s) =>
                       /\ Len(users') = Len(users) + 1
                       /\ SubSeq(users', 1, Len(users)) = users
                       /\ users'[Len(users')].email = loc[c].payload.email
                       /\ \A i \in 1..Len(users) :
                              users[i]["_id"] # users'[Len(users')]["_id"]
                       /\ resp'[c].code = 200
                       /\ DOMAIN resp'[c].body = {"id", "message"}
                       /\ resp'[c].body.id = Str(users'[Len(users')]["_id"])]_vars
    /\ [](\A c, d \in Clients :
            (/\ c # d
             /\ resp[c].op = "register" /\ resp[c].code = 200
             /\ resp[d].op = "register" /\ resp[d].code = 200)
            => resp[c].body.id # resp[d].body.id)

\* C2 witness: one client was refused for a stored email while another was
\* registered, and two users with different emails are stored.
C2_Witness ==
    \E c, d \in Clients :
        /\ DuplicateEmail(resp[c])
        /\ resp[d].op = "register" /\ resp[d].code = 200
        /\ Len(users) = 2
        /\ users[1].email # users[2].email

\* C3: Login succeeds if and only if a user with the given email is stored
\* and the password verifies against that user's stored hash; every failure
\* is the same 401 error; Login never changes the store.
C3_LoginIff ==
    [][\A c \in Clients, e \in ValidEmails, p \in PasswordInputs :
          Login(c, e, p) =>
              /\ resp'[c].code = 200 <=>
                     \E i \in 1..Len(users) :
                         /\ users[i].email = e
                         /\ Verify(p, users[i].password_hash)
              /\ resp'[c].code # 200 =>
                     resp'[c] = HTTPException("login", 401, "Invalid credentials")
              /\ users' = users /\ tasks' = tasks]_vars

\* The keys of a response that carry no password hash.
NoHashIn(record) == "password_hash" \notin DOMAIN record

\* C4: no response contains a password_hash field: the user returned by
\* Login and every record returned by List Users have it removed, and
\* Register returns only the id and a message.
C4_NoPasswordHash ==
    \A c \in Clients :
        /\ NoHashIn(resp[c])
        /\ (resp[c].code # 0 /\ resp[c].op # "list_users") =>
               NoHashIn(resp[c].body)
        /\ (resp[c].op = "register" /\ resp[c].code = 200) =>
               DOMAIN resp[c].body = {"id", "message"}
        /\ (resp[c].op = "login" /\ resp[c].code = 200) =>
               /\ NoHashIn(resp[c].body.user)
               /\ "id" \in DOMAIN resp[c].body.user
        /\ (resp[c].op = "list_users" /\ resp[c].code = 200) =>
               \A i \in 1..Len(resp[c].body) :
                   /\ NoHashIn(resp[c].body[i])
                   /\ "id" \in DOMAIN resp[c].body[i]

\* C4 witness: a Login returned a user and a filtered List Users returned a
\* record, while the store holds that user's password hash.
C4_Witness ==
    \E c, d \in Clients :
        /\ resp[c].op = "login" /\ resp[c].code = 200
        /\ resp[d].op = "list_users" /\ resp[d].code = 200
        /\ Len(resp[d].body) = 1
        /\ resp[d].body[1].role = "MANAGER"
        /\ "password_hash" \in DOMAIN users[1]

(***************************************************************************)
(* Claims about tasks and the analytics overview (TaskSpec).               *)
(***************************************************************************)
ValidUpdates == {u \in UpdateInputs : TaskUpdateEntryValid(u)}
WellFormedIds == {t \in TaskIdInputs : IsObjectIdStr(t)}

\* The position of the task with this identifier string, if it is stored.
Holds(i, task_id) == i \in 1..Len(tasks) /\ tasks[i]["_id"] = ObjectId(task_id)

\* s is a prefix of t.
IsPrefix(s, t) == Len(s) <= Len(t) /\ SubSeq(t, 1, Len(s)) = s

\* Task i is the same document before and after the step.
SameTask(i) == tasks'[i] = tasks[i]

\* A step in which idle client c starts a request and gets a response of
\* `op`, the other clients keeping theirs (every step of the one-step handler
\* `op` run by c is such a step).
Ran(c, op) ==
    /\ pc[c] = "idle" /\ nreq' = nreq + 1
    /\ resp'[c].op = op
    /\ \A d \in Clients \ {c} : resp'[d] = resp[d]

\* A step in which client c gets the success response of `op`.
Answers(c, op) == Ran(c, op) /\ resp'[c].code = 200

\* C5: updates are append-only.  No step removes a task or removes, reorders
\* or alters an entry of a task: the updates before the step are a prefix of
\* the updates after it.  A successful Add Task Update adds exactly its entry,
\* last, to the task it names and leaves the updates of the others alone; Set
\* Task Status and every rejected request leave all updates as they are.
C5_AppendOnly ==
    [][/\ Len(tasks') >= Len(tasks)
       /\ \A i \in 1..Len(tasks) :
              /\ tasks'[i]["_id"] = tasks[i]["_id"]
              /\ IsPrefix(tasks[i].updates, tasks'[i].updates)
       /\ \A c \in Clients :
              /\ Ran(c, "add_task_update") =>
                     \A t \in TaskIdInputs, u \in UpdateInputs : AddTaskUpdate(c, t, u) =>
                         \A i \in 1..Len(tasks) :
                             IF resp'[c].code = 200 /\ Holds(i, t)
                             THEN /\ Len(tasks'[i].updates) =
                                         Len(tasks[i].updates) + 1
                                  /\ tasks'[i].updates[Len(tasks'[i].updates)]
                                         .progress = u.progress
                                  /\ tasks'[i].updates[Len(tasks'[i].updates)]
                                         .user_id = u.user_id
                             ELSE tasks'[i].updates = tasks[i].updates
              /\ Ran(c, "set_task_status") =>
                     \A t \in TaskIdInputs, st \in StatusParams : SetTaskStatus(c, t, st) =>
                         \A i \in 1..Len(tasks) :
                             tasks'[i].updates = tasks[i].updates]_vars

\* C5 witness: a task holds two entries, appended one after the other, the
\* older one first, and the last request was answered "Update added".
C5_Witness ==
    \E i \in 1..Len(tasks), c \in Clients :
        /\ Len(tasks[i].updates) = 2
        /\ tasks[i].updates[1].progress = <<100>>
        /\ tasks[i].updates[2].progress = <<0>>
        /\ resp[c] = Ok("add_task_update", [message |-> "Update added"])

\* C6: Set Task Status with a value outside {PENDING, IN_PROGRESS, COMPLETED}
\* returns the invalid-status error 400 and changes no task; with one of the
\* three values and the id of a stored task it succeeds, sets that task's
\* status to the value and leaves its progress and updates, and every other
\* task, unchanged.
C6_SetTaskStatus ==
    [][\A c \in Clients : Ran(c, "set_task_status") =>
          \A t \in TaskIdInputs, st \in StatusParams : SetTaskStatus(c, t, st) =>
              IF st \notin {"PENDING", "IN_PROGRESS", "COMPLETED"}
              THEN /\ resp'[c] = HTTPException("set_task_status", 400,
                                               "Invalid status")
                   /\ tasks' = tasks
              ELSE /\ Len(tasks') = Len(tasks)
                   /\ \A i \in 1..Len(tasks) :
                          IF IsObjectIdStr(t) /\ Holds(i, t)
                          THEN /\ resp'[c] = Ok("set_task_status",
                                                [message |-> "Status updated"])
                               /\ tasks'[i].status = st
                               /\ tasks'[i].progress = tasks[i].progress
                               /\ tasks'[i].updates = tasks[i].updates
                               /\ Pop(Pop(tasks'[i], "status"), "updated_at") =
                                      Pop(Pop(tasks[i], "status"), "updated_at")
                          ELSE SameTask(i)]_vars

\* C6 witness: a task stored with progress 100 and an update entry was set to
\* COMPLETED and still has them, next to a task that kept its status.
C6_Witness ==
    \E i, j \in 1..Len(tasks), c \in Clients :
        /\ i # j
        /\ tasks[i].status = "COMPLETED" /\ tasks[i].updated_at > tasks[i].created_at
        /\ tasks[i].progress = 100
        /\ tasks[j].status = "PENDING"
        /\ resp[c] = Ok("set_task_status", [message |-> "Status updated"])

\* C6, the refusal: an invalid value was refused while a task is stored.
C6_WitnessRefused ==
    \E c \in Clients :
        /\ resp[c] = HTTPException("set_task_status", 400, "Invalid status")
        /\ Len(tasks) > 0

\* The Add Task Update bodies that give a progress.
ProgressUpdates == {u \in UpdateInputs : u.progress # <<>>}

\* C7: every stored task has progress in [0,100] and a status among PENDING,
\* IN_PROGRESS, COMPLETED, after any sequence of accepted and rejected
\* requests; a Create Task or Add Task Update whose progress is outside
\* [0,100] is rejected and stores nothing, and 0 and 100 are accepted.
C7_ProgressAndStatus ==
    /\ [](\A i \in 1..Len(tasks) :
             /\ tasks[i].progress \in 0..100
             /\ tasks[i].status \in {"PENDING", "IN_PROGRESS", "COMPLETED"}
             /\ \A k \in 1..Len(tasks[i].updates) :
                    \/ tasks[i].updates[k].progress = <<>>
                    \/ tasks[i].updates[k].progress[1] \in 0..100)
    /\ [][\A c \in Clients :
            /\ Ran(c, "create_task") =>
                   \A b \in CreateInputs :
                       CreateTask(c, b[1], b[2], b[3]) =>
                           /\ b[2][1] \notin 0..100 =>
                                  /\ resp'[c].code = 422
                                  /\ tasks' = tasks
                           /\ (/\ b[2] \in {<<0>>, <<100>>}
                               /\ b[1] # "DONE" /\ b[3] = <<>>) =>
                                  /\ resp'[c].code = 200
                                  /\ Len(tasks') = Len(tasks) + 1
                                  /\ tasks'[Len(tasks')].progress = b[2][1]
            /\ Ran(c, "add_task_update") =>
                   \A t \in TaskIdInputs, u \in ProgressUpdates :
                       AddTaskUpdate(c, t, u) =>
                           /\ u.progress[1] \notin 0..100 =>
                                  /\ resp'[c].code = 422
                                  /\ tasks' = tasks
                           /\ (/\ u.progress \in {<<0>>, <<100>>}
                               /\ \E i \in 1..Len(tasks) : Holds(i, t)) =>
                                  /\ resp'[c].code = 200
                                  /\ \E i \in 1..Len(tasks) :
                                         /\ Holds(i, t)
                                         /\ tasks'[i].updates =
                                                Append(tasks[i].updates,
                                                       PushedEntry(u))]_vars

\* C7 witness: a task was stored with progress 100 and another with progress
\* 0, and a request with an out-of-range progress was rejected.
C7_Witness ==
    \E i, j \in 1..Len(tasks), c \in Clients :
        /\ tasks[i].progress = 100
        /\ tasks[j].progress = 0
        /\ resp[c].code = 422

\* C8: Add Task Update and Set Task Status each take effect in one step on
\* the task document.  In every step of every interleaving: an Add Task
\* Update on a stored task appends its entry and refreshes updated_at
\* together, keeping status and progress; a Set Task Status on a stored task
\* sets the status and refreshes updated_at together, keeping the entries; no
\* step appends an entry without refreshing updated_at, and none changes a
\* stored task's status, entries or updated_at except the step of a request
\* that is answered with success, so the effect of no request is undone or
\* lost by another.
C8_AtomicUpdates ==
    [][/\ \A c \in Clients : Ran(c, "add_task_update") =>
              \A t \in WellFormedIds, u \in ValidUpdates : AddTaskUpdate(c, t, u) =>
                  \A i \in 1..Len(tasks) :
                      IF Holds(i, t)
                      THEN /\ tasks'[i].updates =
                                  Append(tasks[i].updates, PushedEntry(u))
                           /\ tasks'[i].updated_at = now
                           /\ tasks'[i].status = tasks[i].status
                           /\ tasks'[i].progress = tasks[i].progress
                           /\ resp'[c].code = 200
                      ELSE SameTask(i)
       /\ \A c \in Clients : Ran(c, "set_task_status") =>
              \A t \in WellFormedIds, st \in TaskStatus : SetTaskStatus(c, t, st) =>
                  \A i \in 1..Len(tasks) :
                      IF Holds(i, t)
                      THEN /\ tasks'[i].status = st
                           /\ tasks'[i].updated_at = now
                           /\ tasks'[i].updates = tasks[i].updates
                           /\ resp'[c].code = 200
                      ELSE SameTask(i)
       /\ \A i \in 1..Len(tasks) :
              /\ tasks'[i].updates # tasks[i].updates =>
                     /\ tasks'[i].updated_at = now
                     /\ tasks'[i].status = tasks[i].status
                     /\ \E c \in Clients : Answers(c, "add_task_update")
              /\ tasks'[i].status # tasks[i].status =>
                     /\ tasks'[i].updated_at = now
                     /\ tasks'[i].updates = tasks[i].updates
                     /\ \E c \in Clients : Answers(c, "set_task_status")
              /\ tasks'[i].updated_at # tasks[i].updated_at =>
                     \/ tasks'[i].updates # tasks[i].updates
                     \/ \E c \in Clients : Answers(c, "set_task_status")]_vars

\* C8 witness: after an Add Task Update and a Set Task Status on the same
\* task, run by different clients after the task was created, the task holds
\* the entry once, has the new status and the refreshed updated_at.
C8_Witness ==
    \E i \in 1..Len(tasks), c, d \in Clients :
        /\ c # d
        /\ resp[c] = Ok("add_task_update", [message |-> "Update added"])
        /\ resp[d] = Ok("set_task_status", [message |-> "Status updated"])
        /\ Len(tasks[i].updates) = 1
        /\ tasks[i].status = "IN_PROGRESS"
        /\ tasks[i].updated_at > tasks[i].created_at

\* The stored tasks with this status.
WithStatus(st) == Cardinality({i \in 1..Len(tasks) : tasks[i].status = st})

Overview(c) == resp[c].op = "overview" /\ resp[c].code = 200

\* C9: the overview's completion_rate is exactly 0 when the task count is
\* zero and completed/total*100 otherwise, where total and completed are what
\* the count queries read: the number of stored tasks, and of stored tasks
\* with status COMPLETED, at the instant of each query (they are the store's
\* numbers at the time of the response when no task write came between).
C9_CompletionRate ==
    /\ [](\A c \in Clients :
             Overview(c) =>
                 LET b == resp[c].body
                 IN /\ b.completion_rate.den > 0
                    /\ b.tasks = 0 => b.completion_rate = [num |-> 0, den |-> 1]
                    /\ b.tasks # 0 =>
                           b.completion_rate.num * b.tasks =
                               b.completed * 100 * b.completion_rate.den)
    /\ [][\A c \in Clients :
            /\ OverviewTasks(c) => loc'[c].total_tasks = Len(tasks)
            /\ OverviewCompleted(c) =>
                   loc'[c].completed = WithStatus("COMPLETED")
            /\ OverviewPending(c) =>
                   /\ resp'[c].body.tasks = loc[c].total_tasks
                   /\ resp'[c].body.completed = loc[c].completed
                   /\ ~overlapped[c] =>
                          /\ resp'[c].body.tasks = Len(tasks)
                          /\ resp'[c].body.completed = WithStatus("COMPLETED")]_vars

\* C9 witness: an overview of two stored tasks, one of them completed,
\* returned the rate 50.
C9_Witness ==
    \E c \in Clients :
        /\ Overview(c)
        /\ Len(tasks) = 2 /\ WithStatus("COMPLETED") = 1
        /\ resp[c].body.completion_rate = [num |-> 50, den |-> 1]

\* C9 witness of the empty store: the rate is 0.
C9_WitnessEmpty ==
    \E c \in Clients :
        Overview(c) /\ tasks = <<>> /\ resp[c].body.completion_rate.num = 0

\* The counts of an overview response add up.
Consistent(b) ==
    /\ b.completed + b.in_progress + b.pending = b.tasks
    /\ b.completed <= b.tasks
    /\ b.completion_rate.num <= 100 * b.completion_rate.den

\* C10 as stated: every overview response is internally consistent, also when
\* Create Task and Set Task Status requests interleave with its counts.
C10_AlwaysConsistent == \A c \in Clients : Overview(c) => Consistent(resp[c].body)

\* C10 amended: an overview response is internally consistent when no Create
\* Task or Set Task Status took effect between its first and its last task
\* count.
C10_ConsistentUnlessOverlapped ==
    \A c \in Clients :
        (Overview(c) /\ ~overlapped[c]) => Consistent(resp[c].body)

\* C10 witness: an overview that no write overlapped counted a stored task of
\* each of two statuses, after another client's write.
C10_Witness ==
    \E c \in Clients :
        /\ Overview(c) /\ ~overlapped[c]
        /\ resp[c].body.tasks = 2
        /\ resp[c].body.pending = 1
        /\ resp[c].body.completed = 1

=============================================================================
